---------------------------- MODULE Spec2Model ----------------------------
(***************************************************************************)
(* Bi-temporal record store of src/temporal_db.py (class TemporalDB).       *)
(*                                                                         *)
(* A datetime is an integer of Times.  Its calendar date is DateOf and its  *)
(* time of day is TimeOf, so that a datetime is SlotsPerDay * date + time.  *)
(* Python's None is the integer None, which is no datetime and no time of   *)
(* day.  The value query_value returns is a sequence: <<>> for None and     *)
(* <<d>> for the dict d.                                                    *)
(***************************************************************************)
EXTENDS Integers, Sequences, FiniteSets, TLC

\* ------------------------------------------------------------------ bounds

MaxTime == 2
SlotsPerDay == 2
MaxLoad == 2
MaxRecords == 3

\* ------------------------------------------------------------- value sets

None == -1

Times == 0..MaxTime
TimesOfDay == 0..(SlotsPerDay - 1)
OptTimes == Times \cup {None}
OptTimesOfDay == TimesOfDay \cup {None}

DateOf(dt) == dt \div SlotsPerDay
TimeOf(dt) == dt % SlotsPerDay

\* the value of every loaded row, and the values update_value is called with
LoadedValue == "5"
NewValues == {"7"}

\* datetime(1900, 1, 1), the default of tx_from
Year1900 == 0

VARIABLES records, loinc_name, current_time, out

vars == <<records, loinc_name, current_time, out>>

\* ------------------------------------------------------------ data model

TemporalRecord(fn, ln, loinc, val, un, vt, sf, st) ==
    [first_name |-> fn, last_name |-> ln, loinc_num |-> loinc, value |-> val,
     unit |-> un, valid_time |-> vt, system_from |-> sf, system_to |-> st]

\* The patients and codes the operations are called with: the loaded one,
\* and three that differ from it in one field each.
Identities ==
    {<<"John", "Doe", "12345-6">>, <<"Jane", "Doe", "12345-6">>,
     <<"John", "Roe", "12345-6">>, <<"John", "Doe", "2345-7">>}

\* The rows of the spreadsheet: measurements of John Doe on the first day,
\* told to the system at the least time; versions told later come from
\* update_value.
ExcelRows ==
    {TemporalRecord("John", "Doe", "12345-6", LoadedValue, "mg/dL", vt, Year1900, None) :
        vt \in TimesOfDay}

\* _load_excel: one record per row, in the order of the rows, all open
LoadedStores == UNION {[1..n -> ExcelRows] : n \in 0..MaxLoad}

\* _load_loinc: the catalogue names the loaded code and not the other
LoadedCatalog == [l \in {"12345-6"} |-> "Glucose [Mass/volume] in Blood"]

KeyOf(r) == <<r.first_name, r.last_name, r.loinc_num, r.valid_time>>

UniqueKeys(recs) ==
    \A i, j \in 1..Len(recs) : KeyOf(recs[i]) = KeyOf(recs[j]) => i = j

\* --------------------------------------------------------------- helpers

\* is_alive_at with the closing instant still counted as alive
is_alive_at_closed_interval(rec, t) ==
    IF rec.system_from > t THEN FALSE
    ELSE IF rec.system_to # None /\ rec.system_to < t THEN FALSE
    ELSE TRUE

is_alive_at(rec, t) ==
    IF rec.system_from > t THEN FALSE
    ELSE IF rec.system_to # None /\ rec.system_to <= t THEN FALSE
    ELSE TRUE

\* the first candidate in list order, whatever its system_from
FirstInList(recs, I) == CHOOSE i \in I : \A j \in I : i <= j

\* max(I, key=lambda r: r.system_from) over the records of recs at the
\* indices I, which are in list order: the first of the greatest
MaxBySystemFrom(recs, I) ==
    CHOOSE i \in I : \A j \in I :
        \/ recs[j].system_from < recs[i].system_from
        \/ recs[j].system_from = recs[i].system_from /\ i <= j

\* max(r.valid_time for r in I)
MaxValidTime(recs, I) ==
    CHOOSE v \in {recs[i].valid_time : i \in I} :
        \A j \in I : recs[j].valid_time <= v

\* self.loinc_name.get(loinc_num, loinc_num)
LongName(names, loinc_num) ==
    IF loinc_num \in DOMAIN names THEN names[loinc_num] ELSE loinc_num

\* --------------------------------------------------------------- queries

\* the dict query_value returns for the record best
ValueProjection(names, best, loinc_num) ==
    [first_name |-> best.first_name, last_name |-> best.last_name,
     loinc |-> best.loinc_num, long_common_name |-> LongName(names, loinc_num),
     value |-> best.value, unit |-> best.unit, valid_time |-> best.valid_time,
     system_from |-> best.system_from, system_to |-> best.system_to]

\* the records of the patient and the code on the calendar day of date
SameDay(recs, first_name, last_name, loinc_num, date) ==
    {i \in 1..Len(recs) :
        /\ recs[i].first_name = first_name
        /\ recs[i].last_name = last_name
        /\ recs[i].loinc_num = loinc_num
        /\ DateOf(recs[i].valid_time) = DateOf(date)}

\* Case 1 of query_value: the index of best, or None
ExactTimeBest(recs, candidates, time, perspective_time) ==
    LET same_time == {i \in candidates : TimeOf(recs[i].valid_time) = time}
        alive == {i \in same_time : is_alive_at(recs[i], perspective_time)}
    IN  IF same_time = {} THEN None
        ELSE IF alive = {} THEN None
        ELSE MaxBySystemFrom(recs, alive)

\* Case 2 with the latest valid_time taken over all candidates of the day,
\* alive or not
DateOnlyBestOfAll(recs, candidates, perspective_time) ==
    LET max_valid == MaxValidTime(recs, candidates)
        alive == {i \in candidates :
                    /\ recs[i].valid_time = max_valid
                    /\ is_alive_at(recs[i], perspective_time)}
    IN  IF alive = {} THEN None ELSE MaxBySystemFrom(recs, alive)

\* Case 2 of query_value: the index of best, or None
DateOnlyBest(recs, candidates, perspective_time) ==
    LET alive == {i \in candidates : is_alive_at(recs[i], perspective_time)}
    IN  IF alive = {} THEN None
        ELSE LET max_valid == MaxValidTime(recs, alive)
                 latest_same_time == {i \in alive : recs[i].valid_time = max_valid}
             IN  MaxBySystemFrom(recs, latest_same_time)

\* a query_value that looks from the end of time when no perspective is given
QueryValueBestFromLatest(recs, cur, first_name, last_name, loinc_num, date, time, perspective_time) ==
    LET p == IF perspective_time = None THEN MaxTime ELSE perspective_time
        candidates == SameDay(recs, first_name, last_name, loinc_num, date)
    IN  IF candidates = {} THEN None
        ELSE IF time # None THEN ExactTimeBest(recs, candidates, time, p)
        ELSE DateOnlyBest(recs, candidates, p)

\* the index of the record query_value selects, or None
QueryValueBest(recs, cur, first_name, last_name, loinc_num, date, time, perspective_time) ==
    LET p == IF perspective_time = None THEN cur ELSE perspective_time
        candidates == SameDay(recs, first_name, last_name, loinc_num, date)
    IN  IF candidates = {} THEN None
        ELSE IF time # None THEN ExactTimeBest(recs, candidates, time, p)
        ELSE DateOnlyBest(recs, candidates, p)

query_value(recs, names, cur, first_name, last_name, loinc_num, date, time, perspective_time) ==
    LET best == QueryValueBest(recs, cur, first_name, last_name, loinc_num,
                               date, time, perspective_time)
    IN  IF best = None THEN <<>>
        ELSE <<ValueProjection(names, recs[best], loinc_num)>>

\* one entry of the list query_history returns
HistoryProjection(names, rec, loinc_num) ==
    [valid_time |-> rec.valid_time, value |-> rec.value, unit |-> rec.unit,
     system_from |-> rec.system_from, system_to |-> rec.system_to,
     long_common_name |-> LongName(names, loinc_num)]

\* the loop keeping the first record met of every valid_time
RECURSIVE GroupFirst(_, _, _, _)
GroupFirst(recs, I, i, groups) ==
    IF i > Len(recs) THEN groups
    ELSE IF i \notin I \/ recs[i].valid_time \in DOMAIN groups
         THEN GroupFirst(recs, I, i + 1, groups)
    ELSE GroupFirst(recs, I, i + 1,
             [k \in DOMAIN groups \cup {recs[i].valid_time} |->
                 IF k = recs[i].valid_time THEN i ELSE groups[k]])

\* the loop that fills groups: valid_time -> index of the kept record, over
\* the records at the indices I from index i on, in list order
RECURSIVE GroupLatest(_, _, _, _)
GroupLatest(recs, I, i, groups) ==
    IF i > Len(recs) THEN groups
    ELSE IF i \notin I THEN GroupLatest(recs, I, i + 1, groups)
    ELSE LET key == recs[i].valid_time
         IN  IF \/ key \notin DOMAIN groups
                \/ recs[groups[key]].system_from < recs[i].system_from
             THEN GroupLatest(recs, I, i + 1,
                      [k \in DOMAIN groups \cup {key} |->
                          IF k = key THEN i ELSE groups[k]])
             ELSE GroupLatest(recs, I, i + 1, groups)

\* sorted(keys)
RECURSIVE Sorted(_)
Sorted(keys) ==
    IF keys = {} THEN <<>>
    ELSE LET least == CHOOSE k \in keys : \A m \in keys : k <= m
         IN  <<least>> \o Sorted(keys \ {least})

\* the groups walked in the order of the records kept, with no sort
RECURSIVE ByIndex(_, _)
ByIndex(groups, keys) ==
    IF keys = {} THEN <<>>
    ELSE LET first == CHOOSE k \in keys : \A m \in keys : groups[k] <= groups[m]
         IN  <<first>> \o ByIndex(groups, keys \ {first})

Unsorted(groups) == ByIndex(groups, DOMAIN groups)

\* the order in which query_history walks the groups
HistoryOrder(groups) == Sorted(DOMAIN groups)

\* the result list of query_history: one entry per group, in order
HistoryResult(names, recs, groups, order, loinc_num) ==
    [n \in 1..Len(order) |-> HistoryProjection(names, recs[groups[order[n]]], loinc_num)]

HistoryOfGroups(names, recs, groups, loinc_num) ==
    HistoryResult(names, recs, groups, HistoryOrder(groups), loinc_num)

query_history(recs, names, cur, first_name, last_name, loinc_num, valid_from, valid_to, tx_from, tx_to) ==
    LET from == IF tx_from = None THEN Year1900 ELSE tx_from
        to == IF tx_to = None THEN cur ELSE tx_to
        tx_filtered == {i \in 1..Len(recs) :
            /\ recs[i].first_name = first_name
            /\ recs[i].last_name = last_name
            /\ recs[i].loinc_num = loinc_num
            /\ valid_from <= recs[i].valid_time
            /\ recs[i].valid_time <= valid_to
            /\ from <= recs[i].system_from /\ recs[i].system_from <= to}
    IN  HistoryOfGroups(names, recs, GroupLatest(recs, tx_filtered, 1, [k \in {} |-> 0]), loinc_num)

\* --------------------------------------------------------------- updates

\* an update that appends the new version and leaves the current one open
AppendWithoutClose(recs, current, new_value, t_update) ==
    Append(recs,
           TemporalRecord(recs[current].first_name, recs[current].last_name,
                          recs[current].loinc_num, new_value, recs[current].unit,
                          recs[current].valid_time, t_update, None))

\* an update that overwrites the current version where it stands
OverwriteInPlace(recs, current, new_value, t_update) ==
    [recs EXCEPT ![current].value = new_value, ![current].system_from = t_update]

\* an update whose new version keeps the system_from of the one it replaces
CloseAndCopy(recs, current, new_value, t_update) ==
    Append([recs EXCEPT ![current].system_to = t_update],
           [recs[current] EXCEPT !.value = new_value, !.system_to = None])

\* lines 238-252 of update_value: close current at t_update, append the
\* new version
CloseAndAppend(recs, current, new_value, t_update) ==
    Append([recs EXCEPT ![current].system_to = t_update],
           TemporalRecord(recs[current].first_name, recs[current].last_name,
                          recs[current].loinc_num, new_value, recs[current].unit,
                          recs[current].valid_time, t_update, None))

\* candidates taken among the records told by t, closed since or not
UpdateCandidatesEverTold(recs, first_name, last_name, loinc_num, valid_time, t) ==
    {i \in 1..Len(recs) :
        /\ recs[i].first_name = first_name
        /\ recs[i].last_name = last_name
        /\ recs[i].loinc_num = loinc_num
        /\ recs[i].valid_time = valid_time
        /\ recs[i].system_from <= t}

\* the candidates of update_value
UpdateCandidates(recs, first_name, last_name, loinc_num, valid_time, t) ==
    {i \in 1..Len(recs) :
        /\ recs[i].first_name = first_name
        /\ recs[i].last_name = last_name
        /\ recs[i].loinc_num = loinc_num
        /\ recs[i].valid_time = valid_time
        /\ is_alive_at(recs[i], t)}

\* an update_value that inserts the measurement when it finds none
update_or_insert(recs, cur, first_name, last_name, loinc_num, valid_time, new_value, t_update) ==
    LET t == IF t_update = None THEN cur ELSE t_update
        candidates == UpdateCandidates(recs, first_name, last_name, loinc_num,
                                       valid_time, t)
    IN  IF candidates = {}
        THEN [records |-> Append(recs, TemporalRecord(first_name, last_name, loinc_num,
                                                      new_value, "mg/dL", valid_time, t, None)),
              msg |-> "No record found to update."]
        ELSE [records |-> CloseAndAppend(recs, MaxBySystemFrom(recs, candidates),
                                         new_value, t),
              msg |-> "Update done."]

\* update_value: the records after the call and the line it prints first
update_value(recs, cur, first_name, last_name, loinc_num, valid_time, new_value, t_update) ==
    LET t == IF t_update = None THEN cur ELSE t_update
        candidates == UpdateCandidates(recs, first_name, last_name, loinc_num,
                                       valid_time, t)
    IN  IF candidates = {}
        THEN [records |-> recs, msg |-> "No record found to update."]
        ELSE [records |-> CloseAndAppend(recs, MaxBySystemFrom(recs, candidates),
                                         new_value, t),
              msg |-> "Update done."]

\* a delete that finds its target and leaves it open
LeaveTargetOpen(recs, target, t_delete) == recs

\* a delete that closes its target at the time it was told, so that no
\* perspective sees it any more
CloseTargetFromStart(recs, target, t_delete) ==
    [recs EXCEPT ![target].system_to = recs[target].system_from]

\* line 295 of delete_value: close target at t_delete
CloseTarget(recs, target, t_delete) ==
    [recs EXCEPT ![target].system_to = t_delete]

\* candidates taken among the open records of the day told by t
DeleteCandidatesOpen(recs, first_name, last_name, loinc_num, date, t) ==
    {i \in SameDay(recs, first_name, last_name, loinc_num, date) :
        recs[i].system_from <= t /\ recs[i].system_to = None}

\* the candidates of delete_value before the time of day is looked at
DeleteCandidates(recs, first_name, last_name, loinc_num, date, t) ==
    {i \in SameDay(recs, first_name, last_name, loinc_num, date) :
        is_alive_at(recs[i], t)}

\* a target taken among all the candidates of the day when no time is given
DeleteTargetOfDay(recs, candidates, time) ==
    IF time # None
    THEN LET same_time == {i \in candidates : TimeOf(recs[i].valid_time) = time}
         IN  IF same_time = {} THEN None ELSE MaxBySystemFrom(recs, same_time)
    ELSE MaxBySystemFrom(recs, candidates)

\* lines 285-294 of delete_value: the index of target, or None
DeleteTarget(recs, candidates, time) ==
    IF time # None
    THEN LET same_time == {i \in candidates : TimeOf(recs[i].valid_time) = time}
         IN  IF same_time = {} THEN None ELSE MaxBySystemFrom(recs, same_time)
    ELSE LET max_valid == MaxValidTime(recs, candidates)
         IN  MaxBySystemFrom(recs, {i \in candidates : recs[i].valid_time = max_valid})

\* delete_value: the records after the call and the line it prints first
delete_value(recs, cur, first_name, last_name, loinc_num, date, time, t_delete) ==
    LET t == IF t_delete = None THEN cur ELSE t_delete
        candidates == DeleteCandidates(recs, first_name, last_name, loinc_num, date, t)
    IN  IF candidates = {}
        THEN [records |-> recs, msg |-> "No record found to delete."]
        ELSE LET target == DeleteTarget(recs, candidates, time)
             IN  IF target = None
                 THEN [records |-> recs, msg |-> "No record with this exact time."]
                 ELSE [records |-> CloseTarget(recs, target, t),
                       msg |-> "Logical delete done. Record closed at:"]

\* ----------------------------------------------------------- state machine

\* what the last call returned (result) or printed first (msg)
Output(op, msg, result) == [op |-> op, msg |-> msg, result |-> result]

\* TemporalDB.__init__: a store whose rows have distinct keys
Init ==
    /\ records \in {s \in LoadedStores : UniqueKeys(s)}
    /\ loinc_name = LoadedCatalog
    /\ current_time \in Times
    /\ out = Output("__init__", "", <<>>)

\* TemporalDB.__init__: any rows
InitAnyRows ==
    /\ records \in LoadedStores
    /\ loinc_name = LoadedCatalog
    /\ current_time \in Times
    /\ out = Output("__init__", "", <<>>)

\* Each call is made with some arguments of the sets below; a step takes one
\* of the outcomes those calls have.  The store holds at most MaxRecords
\* records: an update_value that would append beyond that is not made.
SetCurrentTime ==
    \E t \in Times :
        /\ current_time' = t
        /\ out' = Output("set_current_time", "", <<>>)
        /\ UNCHANGED <<records, loinc_name>>

\* a query_value that keeps the perspective it was asked for as the clock
QueryValueMovingClock ==
    \E id \in Identities, date \in Times, time \in OptTimesOfDay, perspective_time \in Times :
        /\ out' = Output("query_value", "",
                      query_value(records, loinc_name, current_time, id[1], id[2], id[3],
                                  date, time, perspective_time))
        /\ current_time' = perspective_time
        /\ UNCHANGED <<records, loinc_name>>

QueryValue ==
    \E result \in {query_value(records, loinc_name, current_time, id[1], id[2], id[3],
                               date, time, perspective_time) :
                       id \in Identities, date \in Times, time \in OptTimesOfDay,
                       perspective_time \in OptTimes} :
        /\ out' = Output("query_value", "", result)
        /\ UNCHANGED <<records, loinc_name, current_time>>

QueryHistory ==
    \E result \in {query_history(records, loinc_name, current_time, id[1], id[2], id[3],
                                 valid_from, valid_to, tx_from, tx_to) :
                       id \in Identities, valid_from \in Times, valid_to \in Times,
                       tx_from \in OptTimes, tx_to \in OptTimes} :
        /\ out' = Output("query_history", "", result)
        /\ UNCHANGED <<records, loinc_name, current_time>>

UpdateValue ==
    \E r \in {update_value(records, current_time, id[1], id[2], id[3],
                           valid_time, new_value, t_update) :
                  id \in Identities, valid_time \in Times, new_value \in NewValues,
                  t_update \in OptTimes} :
        /\ Len(r.records) <= MaxRecords
        /\ records' = r.records
        /\ out' = Output("update_value", r.msg, <<>>)
        /\ UNCHANGED <<loinc_name, current_time>>

DeleteValue ==
    \E r \in {delete_value(records, current_time, id[1], id[2], id[3],
                           date, time, t_delete) :
                  id \in Identities, date \in Times, time \in OptTimesOfDay,
                  t_delete \in OptTimes} :
        /\ records' = r.records
        /\ out' = Output("delete_value", r.msg, <<>>)
        /\ UNCHANGED <<loinc_name, current_time>>

Next ==
    \/ SetCurrentTime
    \/ QueryValue
    \/ QueryHistory
    \/ UpdateValue
    \/ DeleteValue

\* runs in which nothing is ever deleted
NextUpdatesOnly ==
    \/ SetCurrentTime
    \/ QueryValue
    \/ QueryHistory
    \/ UpdateValue

SpecUpdatesOnly == Init /\ [][NextUpdatesOnly]_vars

\* the time of the latest mutation that found its record: each one leaves
\* its time as the system_to of the record it closes
LastMutationTime(recs) ==
    LET closed == {recs[i].system_to : i \in {k \in 1..Len(recs) : recs[k].system_to # None}}
    IN  IF closed = {} THEN 0 ELSE CHOOSE t \in closed : \A u \in closed : u <= t

\* the times, omitted or given, not earlier than the latest mutation
InOrderTimes == {t \in OptTimes :
                    LastMutationTime(records) <= (IF t = None THEN current_time ELSE t)}

\* update_value called at a time not earlier than any mutation before it
UpdateValueInOrder ==
    \E r \in {update_value(records, current_time, id[1], id[2], id[3],
                           valid_time, new_value, t_update) :
                  id \in Identities, valid_time \in Times, new_value \in NewValues,
                  t_update \in InOrderTimes} :
        /\ Len(r.records) <= MaxRecords
        /\ records' = r.records
        /\ out' = Output("update_value", r.msg, <<>>)
        /\ UNCHANGED <<loinc_name, current_time>>

\* delete_value called at a time not earlier than any mutation before it
DeleteValueInOrder ==
    \E r \in {delete_value(records, current_time, id[1], id[2], id[3],
                           date, time, t_delete) :
                  id \in Identities, date \in Times, time \in OptTimesOfDay,
                  t_delete \in InOrderTimes} :
        /\ records' = r.records
        /\ out' = Output("delete_value", r.msg, <<>>)
        /\ UNCHANGED <<loinc_name, current_time>>

\* runs whose mutation times never decrease
NextInOrder ==
    \/ SetCurrentTime
    \/ QueryValue
    \/ QueryHistory
    \/ UpdateValueInOrder
    \/ DeleteValueInOrder

SpecInOrder == Init /\ [][NextInOrder]_vars

Spec == Init /\ [][Next]_vars

SpecAnyRows == InitAnyRows /\ [][Next]_vars

\* ----------------------------------------------------------------- claims

\* set_current_time may be called in every state, also with the time the
\* clock has, so every store and clock of a run occur in a state right after
\* it; a property of the records and the clock alone is stated there.
AfterSetCurrentTime == out.op = "set_current_time"

IsOpen(r) == r.system_to = None

\* the end of the transaction interval of r: past every time when r is open
IntervalEnd(r) == IF IsOpen(r) THEN MaxTime + 1 ELSE r.system_to

\* the half-open intervals [system_from, system_to) of r and s share an instant
Overlap(r, s) ==
    /\ r.system_from < IntervalEnd(r)
    /\ s.system_from < IntervalEnd(s)
    /\ r.system_from < IntervalEnd(s)
    /\ s.system_from < IntervalEnd(r)

\* C1: from a load with one version per key, after any calls of update_value,
\* delete_value and set_current_time, every key has at most one record whose
\* system_to is None.
AtMostOneOpenPerKey ==
    \A i, j \in 1..Len(records) :
        (KeyOf(records[i]) = KeyOf(records[j]) /\ IsOpen(records[i]) /\ IsOpen(records[j]))
            => i = j

\* C2: no step changes the system_from of a record, and no step changes the
\* system_to of a record that is already closed (so system_to changes at most
\* once, from None to a value that stays).
SystemTimesFixed ==
    [][\A i \in 1..Len(records) :
          /\ i <= Len(records')
          /\ records'[i].system_from = records[i].system_from
          /\ (~IsOpen(records[i]) => records'[i].system_to = records[i].system_to)]_vars

\* C3: from a load with one version per key, the intervals [system_from,
\* system_to) of two versions of one key never overlap, and every version that
\* update_value appended (a record with an earlier record of its key) starts
\* where a version it replaced ends.
VersionsDisjointAndContiguous ==
    /\ \A i, j \in 1..Len(records) :
          (i # j /\ KeyOf(records[i]) = KeyOf(records[j]))
              => ~Overlap(records[i], records[j])
    /\ \A k \in 1..Len(records) :
          (\E i \in 1..(k - 1) : KeyOf(records[i]) = KeyOf(records[k]))
              => \E i \in 1..(k - 1) :
                    /\ KeyOf(records[i]) = KeyOf(records[k])
                    /\ records[i].system_to = records[k].system_from

\* r and s agree in every field but system_to
SameVersion(r, s) == [r EXCEPT !.system_to = None] = [s EXCEPT !.system_to = None]

\* C4: every step keeps every record at its position with all its fields but
\* system_to; a successful update_value adds exactly one record, and every
\* other call (delete_value, an update_value that finds nothing, query_value,
\* query_history, set_current_time) leaves the number of records as it was.
StoreOnlyGrows ==
    [][/\ \A i \in 1..Len(records) :
            i <= Len(records') /\ SameVersion(records[i], records'[i])
       /\ Len(records') =
            IF out'.op = "update_value" /\ out'.msg = "Update done."
            THEN Len(records) + 1 ELSE Len(records)]_vars

StoreOnlyGrowsWitness ==
    /\ out.op = "update_value"
    /\ out.msg = "Update done."
    /\ Len(records) >= 2
    /\ \E i \in 1..Len(records) : ~IsOpen(records[i])

\* C5: is_alive_at(r, t) iff r.system_from <= t and (r.system_to is None or
\* t < r.system_to); a record with a non-empty interval is alive at its
\* system_from, a closed record is not alive at its system_to, and a record
\* with system_from = system_to is alive at no time.
AliveIffInInterval ==
    \A i \in 1..Len(records) :
        LET r == records[i]
        IN  /\ \A t \in Times :
                  is_alive_at(r, t) <=>
                      (r.system_from <= t /\ (r.system_to = None \/ t < r.system_to))
            /\ (IsOpen(r) \/ r.system_from < r.system_to) => is_alive_at(r, r.system_from)
            /\ ~IsOpen(r) => ~is_alive_at(r, r.system_to)
            /\ r.system_from = r.system_to => \A t \in Times : ~is_alive_at(r, t)

AliveIffInIntervalWitness ==
    \E i, j \in 1..Len(records) :
        /\ records[i].system_from = records[i].system_to
        /\ ~IsOpen(records[j]) /\ records[j].system_from < records[j].system_to

\* the indices of the versions of the measurement of patient and code id
\* with valid time v
VersionsOf(recs, id, v) ==
    {i \in 1..Len(recs) : KeyOf(recs[i]) = <<id[1], id[2], id[3], v>>}

\* the time an operation uses when it is called with the optional time t
Effective(t) == IF t = None THEN current_time ELSE t

\* query_value in exact-time mode for the valid time v, on the records recs
ExactQuery(recs, id, v, p) ==
    query_value(recs, loinc_name, current_time, id[1], id[2], id[3], v, TimeOf(v), p)

\* C6: when a measurement has one version only, open, with value old and
\* system_from s, then after a successful update_value to new at time t the
\* exact-time query_value returns new at every perspective p >= t and old at
\* every perspective p with s <= p < t.
UpdateThenTimeTravel ==
    \A id \in Identities, v \in Times, new \in NewValues, t \in OptTimes :
        LET versions == VersionsOf(records, id, v)
            r == update_value(records, current_time, id[1], id[2], id[3], v, new, t)
        IN  (/\ Cardinality(versions) = 1
             /\ \A i \in versions : IsOpen(records[i])
             /\ r.msg = "Update done.")
            => \A i \in versions, p \in OptTimes :
                  LET res == ExactQuery(r.records, id, v, p)
                  IN  /\ Effective(p) >= Effective(t)
                          => (res # <<>> /\ res[1].value = new
                              /\ res[1].system_from = Effective(t))
                      /\ (records[i].system_from <= Effective(p)
                          /\ Effective(p) < Effective(t))
                          => (res # <<>> /\ res[1].value = records[i].value
                              /\ res[1].system_from = records[i].system_from)

UpdateThenTimeTravelWitness ==
    /\ out.op = "update_value"
    /\ out.msg = "Update done."
    /\ \E id \in Identities, v \in Times :
          \E i, j \in VersionsOf(records, id, v) :
              /\ VersionsOf(records, id, v) = {i, j}
              /\ records[i].system_from < records[i].system_to
              /\ records[i].system_to = records[j].system_from
              /\ IsOpen(records[j])
              /\ ExactQuery(records, id, v, records[j].system_from)[1].value
                    = records[j].value
              /\ ExactQuery(records, id, v, records[i].system_from)[1].value
                    = records[i].value
              /\ records[i].value # records[j].value

\* the measurement with valid time v is the one delete_value closes when it
\* is called for date and time at d: in exact-time mode it has that date and
\* time of day, in date-only mode it is the latest of the day alive at d
DeleteIsFor(recs, id, v, date, time, d) ==
    /\ DateOf(v) = DateOf(date)
    /\ time # None => time = TimeOf(v)
    /\ time = None =>
          \A j \in 1..Len(recs) :
              (/\ <<recs[j].first_name, recs[j].last_name, recs[j].loinc_num>> = id
               /\ DateOf(recs[j].valid_time) = DateOf(date)
               /\ recs[j].system_from <= d
               /\ (IsOpen(recs[j]) \/ d < recs[j].system_to))
                  => recs[j].valid_time <= v

\* C7: when a measurement has one version only, open, with value old and
\* system_from s, then after a successful delete_value of it at time d >= s
\* the exact-time query_value returns nothing at every perspective p >= d and
\* old at every perspective p with s <= p < d.
DeleteThenTimeTravel ==
    \A id \in Identities, v \in Times, date \in Times, time \in OptTimesOfDay, d \in OptTimes :
        LET versions == VersionsOf(records, id, v)
            r == delete_value(records, current_time, id[1], id[2], id[3], date, time, d)
        IN  (/\ Cardinality(versions) = 1
             /\ \A i \in versions :
                   IsOpen(records[i]) /\ records[i].system_from <= Effective(d)
             /\ DeleteIsFor(records, id, v, date, time, Effective(d))
             /\ r.msg = "Logical delete done. Record closed at:")
            => \A i \in versions, p \in OptTimes :
                  LET res == ExactQuery(r.records, id, v, p)
                  IN  /\ Effective(p) >= Effective(d) => res = <<>>
                      /\ (records[i].system_from <= Effective(p)
                          /\ Effective(p) < Effective(d))
                          => (res # <<>> /\ res[1].value = records[i].value
                              /\ res[1].system_from = records[i].system_from)

DeleteThenTimeTravelWitness ==
    /\ out.op = "delete_value"
    /\ out.msg = "Logical delete done. Record closed at:"
    /\ \E id \in Identities, v \in Times :
          \E i \in VersionsOf(records, id, v) :
              /\ VersionsOf(records, id, v) = {i}
              /\ records[i].system_from < records[i].system_to
              /\ ExactQuery(records, id, v, records[i].system_to) = <<>>
              /\ ExactQuery(records, id, v, records[i].system_from) # <<>>

\* the dict d that query_value returned shows the record r
ShowsRecord(d, r) ==
    /\ d.first_name = r.first_name
    /\ d.last_name = r.last_name
    /\ d.loinc = r.loinc_num
    /\ d.value = r.value
    /\ d.unit = r.unit
    /\ d.valid_time = r.valid_time
    /\ d.system_from = r.system_from
    /\ d.system_to = r.system_to

\* the records of the patient and code id on the day of date, with the time
\* of day time when one is given, whose interval holds the instant p
MatchingAlive(recs, id, date, time, p) ==
    {i \in 1..Len(recs) :
        /\ <<recs[i].first_name, recs[i].last_name, recs[i].loinc_num>> = id
        /\ DateOf(recs[i].valid_time) = DateOf(date)
        /\ time # None => TimeOf(recs[i].valid_time) = time
        /\ recs[i].system_from <= p
        /\ (recs[i].system_to = None \/ p < recs[i].system_to)}

\* C8: query_value with a time of day returns nothing iff no record of the
\* patient, code, date and time of day is alive at the perspective; otherwise
\* it returns such a record, one whose system_from is the greatest among them.
ExactTimeSelectsLatestAlive ==
    \A id \in Identities, date \in Times, time \in TimesOfDay, p \in OptTimes :
        LET M == MatchingAlive(records, id, date, time, Effective(p))
            res == query_value(records, loinc_name, current_time, id[1], id[2], id[3],
                               date, time, p)
        IN  /\ res = <<>> <=> M = {}
            /\ M # {} =>
                  \E i \in M :
                      /\ ShowsRecord(res[1], records[i])
                      /\ \A j \in M : records[j].system_from <= records[i].system_from

ExactTimeSelectsLatestAliveWitness ==
    /\ out.op = "query_value"
    /\ out.result # <<>>
    /\ \E i, j, k \in 1..Len(records) :
          /\ KeyOf(records[i]) = KeyOf(records[j])
          /\ KeyOf(records[i]) = KeyOf(records[k])
          /\ records[i].system_from < records[j].system_from
          /\ IsOpen(records[i]) /\ IsOpen(records[j])
          /\ ~IsOpen(records[k])
          /\ ShowsRecord(out.result[1], records[j])

\* C9: query_value without a time of day returns nothing iff no record of
\* the patient, code and date is alive at the perspective; otherwise it
\* returns a record with the greatest valid_time among those alive, and with
\* the greatest system_from among the alive ones of that valid_time.
DateOnlySelectsLatestAlive ==
    \A id \in Identities, date \in Times, p \in OptTimes :
        LET M == MatchingAlive(records, id, date, None, Effective(p))
            res == query_value(records, loinc_name, current_time, id[1], id[2], id[3],
                               date, None, p)
        IN  /\ res = <<>> <=> M = {}
            /\ M # {} =>
                  \E i \in M :
                      /\ ShowsRecord(res[1], records[i])
                      /\ \A j \in M : records[j].valid_time <= records[i].valid_time
                      /\ \A j \in M :
                            records[j].valid_time = records[i].valid_time
                                => records[j].system_from <= records[i].system_from

\* a later measurement of the day is not alive when the query is made, and
\* the query shows the earlier one
DateOnlySelectsLatestAliveWitness ==
    /\ out.op = "query_value"
    /\ out.result # <<>>
    /\ \E i, j \in 1..Len(records) :
          /\ DateOf(records[i].valid_time) = DateOf(records[j].valid_time)
          /\ records[i].valid_time < records[j].valid_time
          /\ ~IsOpen(records[j])
          /\ ShowsRecord(out.result[1], records[i])
    /\ \E i, j \in 1..Len(records), p \in Times :
          /\ records[i].valid_time < records[j].valid_time
          /\ {i, j} \subseteq MatchingAlive(records, <<"John", "Doe", "12345-6">>,
                                            records[i].valid_time, None, p)

\* C10: the list query_history returns is strictly ascending by valid_time
\* (so no valid_time comes twice), and every entry has its valid_time in
\* [valid_from, valid_to] and its system_from in [tx_from, tx_to], where a
\* missing tx_from is 1900-01-01 and a missing tx_to the current time.
HistoryAscendingInRange ==
    AfterSetCurrentTime =>
    \A id \in Identities, valid_from \in Times, valid_to \in Times,
       tx_from \in OptTimes, tx_to \in OptTimes :
        LET h == query_history(records, loinc_name, current_time, id[1], id[2], id[3],
                               valid_from, valid_to, tx_from, tx_to)
            from == IF tx_from = None THEN Year1900 ELSE tx_from
        IN  \A n \in 1..Len(h) :
                /\ valid_from <= h[n].valid_time /\ h[n].valid_time <= valid_to
                /\ from <= h[n].system_from /\ h[n].system_from <= Effective(tx_to)
                /\ n < Len(h) => h[n].valid_time < h[n + 1].valid_time

\* a history of two valid times whose records are stored latest first, one
\* of them in two versions
HistoryAscendingInRangeWitness ==
    /\ out.op = "query_history"
    /\ Len(out.result) >= 2
    /\ Len(records) >= 3
    /\ records[1].valid_time > records[2].valid_time
    /\ KeyOf(records[3]) = KeyOf(records[1])

\* the entry e of a history shows the record r
ShowsVersion(e, r) ==
    /\ e.valid_time = r.valid_time
    /\ e.value = r.value
    /\ e.unit = r.unit
    /\ e.system_from = r.system_from
    /\ e.system_to = r.system_to

\* the records of the patient and code id with valid time v whose
\* system_from lies in [from, to]
ToldWithin(recs, id, v, from, to) ==
    {i \in 1..Len(recs) :
        /\ <<recs[i].first_name, recs[i].last_name, recs[i].loinc_num>> = id
        /\ recs[i].valid_time = v
        /\ from <= recs[i].system_from
        /\ recs[i].system_from <= to}

\* C11: for every valid time v in [valid_from, valid_to] with some record of
\* the patient and code told within [tx_from, tx_to] (tx_to the clock when
\* omitted), query_history has exactly one entry for v, and it shows one of
\* those records with the greatest system_from; for every other v it has no
\* entry.  So of three versions told at 0 < 1 < 2, tx_to = 1 yields the 2nd.
HistorySnapshotSelection ==
    AfterSetCurrentTime =>
    \A id \in Identities, valid_from \in Times, valid_to \in Times,
       tx_from \in OptTimes, tx_to \in OptTimes :
        LET h == query_history(records, loinc_name, current_time, id[1], id[2], id[3],
                               valid_from, valid_to, tx_from, tx_to)
            from == IF tx_from = None THEN Year1900 ELSE tx_from
        IN  \A v \in Times :
                LET G == IF valid_from <= v /\ v <= valid_to
                         THEN ToldWithin(records, id, v, from, Effective(tx_to))
                         ELSE {}
                    entries == {n \in 1..Len(h) : h[n].valid_time = v}
                IN  /\ G = {} => entries = {}
                    /\ G # {} =>
                          /\ Cardinality(entries) = 1
                          /\ \A n \in entries : \E i \in G :
                                /\ ShowsVersion(h[n], records[i])
                                /\ \A j \in G :
                                      records[j].system_from <= records[i].system_from

\* three versions of one measurement told at increasing times, and the
\* history last asked for shows the second of them
HistorySnapshotSelectionWitness ==
    /\ out.op = "query_history"
    /\ Len(out.result) = 1
    /\ \E i, j, k \in 1..Len(records) :
          /\ KeyOf(records[i]) = KeyOf(records[j])
          /\ KeyOf(records[j]) = KeyOf(records[k])
          /\ records[i].system_from < records[j].system_from
          /\ records[j].system_from < records[k].system_from
          /\ ShowsVersion(out.result[1], records[j])

IsQuery(o) == o.op \in {"query_value", "query_history"}

\* C12: a step of query_value or query_history changes no record, nor the
\* list of records, nor the clock, nor the catalogue; these are all a query
\* reads besides its arguments, so the same call made again returns the same.
QueriesReadOnly ==
    [][IsQuery(out') =>
          /\ records' = records
          /\ current_time' = current_time
          /\ loinc_name' = loinc_name]_vars

QueriesReadOnlyWitness ==
    /\ out.op = "query_history"
    /\ out.result # <<>>
    /\ \E i \in 1..Len(records) : ~IsOpen(records[i])
    /\ Len(records) = MaxRecords

NotFoundLines ==
    {"No record found to update.", "No record found to delete.",
     "No record with this exact time."}

\* C13: a step of update_value or delete_value that reports not-found leaves
\* every record, the number of records and the clock as they were; and
\* update_value reports not-found when no record of the patient, code and
\* valid time is alive at the update time, delete_value when no record of
\* the day is alive at the delete time, or when some are and none has the
\* time of day asked for.
NotFoundChangesNothing ==
    [][out'.op \in {"update_value", "delete_value"} =>
          /\ out'.msg \in NotFoundLines =>
                (records' = records /\ current_time' = current_time
                 /\ loinc_name' = loinc_name)
          /\ AfterSetCurrentTime => \A id \in Identities, t \in OptTimes :
                /\ \A v \in Times, new \in NewValues :
                      ({i \in MatchingAlive(records, id, v, TimeOf(v), Effective(t)) :
                            records[i].valid_time = v} = {})
                          => update_value(records, current_time, id[1], id[2], id[3],
                                          v, new, t)
                             = [records |-> records, msg |-> "No record found to update."]
                /\ \A date \in Times, time \in OptTimesOfDay :
                      LET r == delete_value(records, current_time, id[1], id[2], id[3],
                                            date, time, t)
                          day == MatchingAlive(records, id, date, None, Effective(t))
                      IN  /\ day = {} =>
                                r = [records |-> records,
                                     msg |-> "No record found to delete."]
                          /\ (/\ day # {}
                              /\ time # None
                              /\ MatchingAlive(records, id, date, time, Effective(t)) = {})
                                => r = [records |-> records,
                                        msg |-> "No record with this exact time."]]_vars

\* a delete that found measurements of the day and none at the time asked
NotFoundChangesNothingWitness ==
    /\ out.op = "delete_value"
    /\ out.msg = "No record with this exact time."
    /\ \E i \in 1..Len(records) : ~IsOpen(records[i])
    /\ \E i \in 1..Len(records) : IsOpen(records[i])

\* after is before with the version of id and valid time v that is alive at
\* t and latest told closed at t, and a version of value new_value told
\* from t, open, appended
UpdateEffect(before, after, id, v, new_value, t) ==
    \E i \in {k \in MatchingAlive(before, id, v, TimeOf(v), t) : before[k].valid_time = v} :
        /\ \A j \in MatchingAlive(before, id, v, TimeOf(v), t) :
              before[j].valid_time = v => before[j].system_from <= before[i].system_from
        /\ Len(after) = Len(before) + 1
        /\ after[i] = [before[i] EXCEPT !.system_to = t]
        /\ \A j \in 1..Len(before) : j # i => after[j] = before[j]
        /\ after[Len(after)] =
              [first_name |-> before[i].first_name, last_name |-> before[i].last_name,
               loinc_num |-> before[i].loinc_num, value |-> new_value,
               unit |-> before[i].unit, valid_time |-> before[i].valid_time,
               system_from |-> t, system_to |-> None]
        /\ \E k \in 1..Len(after) : IsOpen(after[k]) /\ KeyOf(after[k]) = KeyOf(before[i])

\* C14: a successful update_value at t is one step that closes at t exactly
\* one record, one of greatest system_from among the records of the key
\* alive at t, appends exactly one record with the same names, code, valid
\* time and unit, the new value, system_from = t and no system_to, and
\* leaves every other record and the clock unchanged; the key has an open
\* version afterwards.
UpdateClosesOneAppendsOne ==
    [][(out'.op = "update_value" /\ out'.msg = "Update done.") =>
          /\ current_time' = current_time
          /\ loinc_name' = loinc_name
          /\ \E id \in Identities, v \in Times, new_value \in NewValues, t \in Times :
                UpdateEffect(records, records', id, v, new_value, t)
          /\ \A id \in Identities, v \in Times, new_value \in NewValues, t \in OptTimes :
                LET r == update_value(records, current_time, id[1], id[2], id[3],
                                      v, new_value, t)
                IN  r.msg = "Update done." =>
                        UpdateEffect(records, r.records, id, v, new_value, Effective(t))]_vars

\* an update that closed a version other than the first of the list and
\* left a third record as it was
UpdateClosesOneAppendsOneWitness ==
    /\ out.op = "update_value"
    /\ out.msg = "Update done."
    /\ Len(records) = 3
    /\ IsOpen(records[1])
    /\ ~IsOpen(records[2])
    /\ records[3].system_from = records[2].system_to
    /\ KeyOf(records[3]) = KeyOf(records[2])

\* after is before with one record closed at d: of id, of the day of date,
\* alive at d, with the time of day asked for or else the latest valid time
\* of the day, and latest told among those
DeleteEffect(before, after, id, date, time, d) ==
    LET day == MatchingAlive(before, id, date, None, d)
        remaining == IF time # None
                     THEN MatchingAlive(before, id, date, time, d)
                     ELSE {k \in day : \A j \in day :
                               before[j].valid_time <= before[k].valid_time}
    IN  \E i \in remaining :
            /\ \A j \in remaining : before[j].system_from <= before[i].system_from
            /\ after = [before EXCEPT ![i].system_to = d]

\* C15: a successful delete_value at d sets system_to = d on exactly one
\* record and creates none: the record has the date and time of day given,
\* or with no time given the greatest valid time among the records of the
\* day alive at d, and the greatest system_from among those; all other
\* records, the number of records and the clock are unchanged.
DeleteClosesOne ==
    [][(out'.op = "delete_value" /\ out'.msg = "Logical delete done. Record closed at:") =>
          /\ current_time' = current_time
          /\ loinc_name' = loinc_name
          /\ Len(records') = Len(records)
          /\ \E id \in Identities, date \in Times, time \in OptTimesOfDay, d \in Times :
                DeleteEffect(records, records', id, date, time, d)
          /\ \A id \in Identities, date \in Times, time \in OptTimesOfDay, d \in OptTimes :
                LET r == delete_value(records, current_time, id[1], id[2], id[3],
                                      date, time, d)
                IN  r.msg = "Logical delete done. Record closed at:" =>
                        DeleteEffect(records, r.records, id, date, time, Effective(d))]_vars

\* a delete that closed the later of two measurements of one day and left
\* the earlier, told later, open
DeleteClosesOneWitness ==
    /\ out.op = "delete_value"
    /\ out.msg = "Logical delete done. Record closed at:"
    /\ \E i, j \in 1..Len(records) :
          /\ DateOf(records[i].valid_time) = DateOf(records[j].valid_time)
          /\ records[i].valid_time < records[j].valid_time
          /\ records[j].system_from < records[i].system_from
          /\ IsOpen(records[i])
          /\ ~IsOpen(records[j])

\* C16: the clock changes only in set_current_time, which changes no record;
\* and wherever the clock has been set, also before earlier mutations, a
\* call of query_value, query_history (tx_to), update_value or delete_value
\* without its time returns and does what the same call does with the time
\* given as the clock.
ClockIsDefaultLens ==
    [][/\ current_time' # current_time => out'.op = "set_current_time"
       /\ out'.op = "set_current_time" =>
             /\ records' = records
             /\ loinc_name' = loinc_name
             /\ AfterSetCurrentTime => \A id \in Identities, v \in Times :
                   /\ \A time \in OptTimesOfDay :
                         /\ query_value(records', loinc_name', current_time',
                                        id[1], id[2], id[3], v, time, None)
                            = query_value(records', loinc_name', current_time',
                                          id[1], id[2], id[3], v, time, current_time')
                         /\ delete_value(records', current_time', id[1], id[2], id[3],
                                         v, time, None)
                            = delete_value(records', current_time', id[1], id[2], id[3],
                                           v, time, current_time')
                   /\ \A new_value \in NewValues :
                         update_value(records', current_time', id[1], id[2], id[3],
                                      v, new_value, None)
                         = update_value(records', current_time', id[1], id[2], id[3],
                                        v, new_value, current_time')
                   /\ \A valid_to \in Times, tx_from \in OptTimes :
                         query_history(records', loinc_name', current_time',
                                       id[1], id[2], id[3], v, valid_to, tx_from, None)
                         = query_history(records', loinc_name', current_time',
                                         id[1], id[2], id[3], v, valid_to, tx_from,
                                         current_time')]_vars

\* the clock set before the time of an earlier mutation
ClockIsDefaultLensWitness ==
    /\ out.op = "set_current_time"
    /\ \E i \in 1..Len(records) :
          /\ ~IsOpen(records[i])
          /\ current_time < records[i].system_to
          /\ records[i].system_from <= current_time

\* C17: in a store reached from one version per key by update_value alone,
\* with tx_from omitted and tx_to = p, query_history has an entry for a
\* valid time v of its range exactly when query_value for v at its time of
\* day seen from p finds a record, and the two show the same value.
HistoryAgreesWithPointQuery ==
    \A id \in Identities, valid_from \in Times, valid_to \in Times, p \in Times :
        LET h == query_history(records, loinc_name, current_time, id[1], id[2], id[3],
                               valid_from, valid_to, None, p)
        IN  \A v \in valid_from..valid_to :
                LET q == ExactQuery(records, id, v, p)
                    entries == {n \in 1..Len(h) : h[n].valid_time = v}
                IN  /\ entries # {} <=> q # <<>>
                    /\ \A n \in entries : q # <<>> => h[n].value = q[1].value

\* the measurement k has records in recs, none of them open, and
\* query_value at its time of day finds none from any perspective from d on
GoneFrom(recs, k, d) ==
    /\ \E i \in 1..Len(recs) : KeyOf(recs[i]) = k
    /\ \A i \in 1..Len(recs) : KeyOf(recs[i]) = k => ~IsOpen(recs[i])
    /\ \A p \in d..MaxTime :
          query_value(recs, loinc_name, current_time, k[1], k[2], k[3],
                      k[4], TimeOf(k[4]), p) = <<>>

\* C18: deletion is permanent: once a delete at d has left a measurement
\* with no version alive from d on, no later update_value, delete_value or
\* set_current_time brings it back: query_value at its exact time still
\* finds nothing from every perspective p >= d and it has no open version.
DeletionIsPermanent ==
    [][\A i \in 1..Len(records), d \in Times :
          GoneFrom(records, KeyOf(records[i]), d)
              => GoneFrom(records', KeyOf(records[i]), d)]_vars

\* the pairs <<t, store>> of a mutation time and the store a call of
\* update_value or delete_value at t leaves, found or not
MutationsAt ==
    {<<Effective(t),
       update_value(records, current_time, id[1], id[2], id[3], v, new_value, t).records>> :
        id \in Identities, v \in Times, new_value \in NewValues, t \in OptTimes}
    \cup
    {<<Effective(t),
       delete_value(records, current_time, id[1], id[2], id[3], date, time, t).records>> :
        id \in Identities, date \in Times, time \in OptTimesOfDay, t \in OptTimes}

\* the result of query_value without the system_to of the record it shows
WithoutSystemTo(result) ==
    [n \in DOMAIN result |-> [result[n] EXCEPT !.system_to = None]]

\* C19 as stated: for every update_value or delete_value at t, successful or
\* not, in whatever order of times, and every perspective p < t, query_value
\* with any arguments returns from p the same result after the mutation as
\* before it.
PastIsStable ==
    \A m \in MutationsAt :
        \A p \in Times, id \in Identities, date \in Times, time \in OptTimesOfDay :
            p < m[1] =>
                query_value(m[2], loinc_name, current_time, id[1], id[2], id[3],
                            date, time, p)
                = query_value(records, loinc_name, current_time, id[1], id[2], id[3],
                              date, time, p)

\* C19 amended: ... returns from p a result showing the same record after
\* the mutation as before it, equal in every field but system_to, which
\* becomes t when the mutation closes the record shown.
PastIsStableButSystemTo ==
    AfterSetCurrentTime =>
    \A m \in MutationsAt :
        \A p \in Times, id \in Identities, date \in Times, time \in OptTimesOfDay :
            p < m[1] =>
                LET after == query_value(m[2], loinc_name, current_time,
                                         id[1], id[2], id[3], date, time, p)
                    before == query_value(records, loinc_name, current_time,
                                          id[1], id[2], id[3], date, time, p)
                IN  /\ WithoutSystemTo(after) = WithoutSystemTo(before)
                    /\ \A n \in DOMAIN after :
                          after[n].system_to \in {before[n].system_to, m[1]}

\* a record closed by a mutation at a time later than it was told, which a
\* query from in between still shows, now with the time it was closed
PastIsStableButSystemToWitness ==
    /\ out.op \in {"update_value", "delete_value"}
    /\ out.msg \notin NotFoundLines
    /\ \E i \in 1..Len(records), p \in Times :
          /\ records[i].system_from <= p
          /\ records[i].system_to # None
          /\ p < records[i].system_to
          /\ LET q == ExactQuery(records, <<records[i].first_name, records[i].last_name,
                                            records[i].loinc_num>>,
                                 records[i].valid_time, p)
             IN  q # <<>> /\ q[1].system_to = records[i].system_to

\* every closed record of recs ends no earlier than it starts
ClosedAfterStart(recs) ==
    \A i \in 1..Len(recs) : ~IsOpen(recs[i]) => recs[i].system_from <= recs[i].system_to

\* C20: from a load with at most one version per key, with every
\* update_value and delete_value at a time not earlier than any mutation
\* before it, each key has at most one open version in every state, every
\* mutation closes only a record that was open, and every closed record
\* has system_from <= system_to.
ChainWellFormedInOrder ==
    [][/\ AtMostOneOpenPerKey
       /\ AtMostOneOpenPerKey'
       /\ ClosedAfterStart(records)
       /\ ClosedAfterStart(records')
       /\ \A i \in 1..Len(records) :
             records'[i].system_to # records[i].system_to => IsOpen(records[i])]_vars

\* a key updated and then deleted, each at a later time: two closed versions
\* and none open
ChainWellFormedInOrderWitness ==
    /\ out.op = "delete_value"
    /\ out.msg \notin NotFoundLines
    /\ Len(records) = 3
    /\ \E i, j \in 1..Len(records) :
          /\ i # j
          /\ KeyOf(records[i]) = KeyOf(records[j])
          /\ ~IsOpen(records[i])
          /\ ~IsOpen(records[j])
          /\ records[i].system_to = records[j].system_from
          /\ records[j].system_from < records[j].system_to

\* a mutation on recs that printed msg and left after reported not-found
\* when query_value with result q and selection best did, and otherwise
\* closed at t the very record that q shows, and no other
TargetsWhatQueryShows(recs, msg, after, q, best, t) ==
    IF q = <<>>
    THEN msg \in NotFoundLines
    ELSE /\ msg \notin NotFoundLines
         /\ ShowsRecord(q[1], recs[best])
         /\ SubSeq(after, 1, Len(recs)) = [recs EXCEPT ![best].system_to = t]

\* C21: in every store and for every time t, delete_value at t reports
\* not-found exactly when query_value with the same names, code, date and
\* time seen from t finds nothing, and otherwise closes the record that
\* query_value returns; update_value at t likewise, against query_value at
\* the date and time of day of its valid time.
MutationsTargetWhatQueryShows ==
    AfterSetCurrentTime =>
    \A id \in Identities, v \in Times, t \in Times :
        /\ \A time \in OptTimesOfDay :
              LET r == delete_value(records, current_time, id[1], id[2], id[3], v, time, t)
                  best == QueryValueBest(records, current_time, id[1], id[2], id[3],
                                         v, time, t)
              IN  TargetsWhatQueryShows(
                      records, r.msg, r.records,
                      query_value(records, loinc_name, current_time, id[1], id[2], id[3],
                                  v, time, t),
                      best, t)
        /\ \A new_value \in NewValues :
              LET r == update_value(records, current_time, id[1], id[2], id[3],
                                    v, new_value, t)
                  best == QueryValueBest(records, current_time, id[1], id[2], id[3],
                                         v, TimeOf(v), t)
              IN  TargetsWhatQueryShows(records, r.msg, r.records,
                                        ExactQuery(records, id, v, t), best, t)

\* a delete without a time of day that closed the later of two measurements
\* of one day, the one query_value showed for that day, and a version closed
\* earlier that the same query still shows from before
MutationsTargetWhatQueryShowsWitness ==
    /\ out.op = "delete_value"
    /\ out.msg \notin NotFoundLines
    /\ \E i, j \in 1..Len(records) :
          /\ DateOf(records[i].valid_time) = DateOf(records[j].valid_time)
          /\ records[i].valid_time < records[j].valid_time
          /\ IsOpen(records[i])
          /\ ~IsOpen(records[j])
          /\ records[j].system_from < records[j].system_to
          /\ LET q == query_value(records, loinc_name, current_time,
                                  records[j].first_name, records[j].last_name,
                                  records[j].loinc_num, records[j].valid_time, None,
                                  records[j].system_from)
             IN  q # <<>> /\ ShowsRecord(q[1], records[j])

\* the pairs <<d, store>> of a delete time and the store a delete_value at d
\* that found its record leaves
DeletionsAt ==
    {<<Effective(d),
       delete_value(records, current_time, id[1], id[2], id[3], date, time, d).records>> :
        id \in Identities, date \in Times, time \in OptTimesOfDay, d \in OptTimes}
    \ {<<d, records>> : d \in Times}

\* the record of before that after has closed
ClosedBy(before, after) == CHOOSE i \in 1..Len(before) : after[i] # before[i]

\* every query_history returns on after what it returns on before, but for
\* the system_to, now d, of the entries that show the record c
SameHistoryButSystemTo(before, after, c, d) ==
    \A id \in Identities, valid_from \in Times, valid_to \in Times,
       tx_from \in OptTimes, tx_to \in OptTimes :
        LET h == query_history(before, loinc_name, current_time, id[1], id[2], id[3],
                               valid_from, valid_to, tx_from, tx_to)
            g == query_history(after, loinc_name, current_time, id[1], id[2], id[3],
                               valid_from, valid_to, tx_from, tx_to)
        IN  /\ Len(g) = Len(h)
            /\ \A n \in 1..Len(h) :
                  \/ g[n] = h[n]
                  \/ ShowsVersion(h[n], c) /\ g[n] = [h[n] EXCEPT !.system_to = d]

\* the closed record c still has an entry in the query_history on after of
\* every tx_to >= its system_from
StillInHistory(after, c) ==
    \A tx_to \in Times :
        c.system_from <= tx_to =>
            \E n \in DOMAIN query_history(after, loinc_name, current_time,
                                          c.first_name, c.last_name, c.loinc_num,
                                          c.valid_time, c.valid_time, None, tx_to) :
                query_history(after, loinc_name, current_time,
                              c.first_name, c.last_name, c.loinc_num,
                              c.valid_time, c.valid_time, None, tx_to)[n].valid_time
                = c.valid_time

\* query_value at the exact time of c finds nothing on after from d on
GoneFromPointQuery(after, c, d) ==
    \A p \in d..MaxTime :
        ExactQuery(after, <<c.first_name, c.last_name, c.loinc_num>>, c.valid_time, p) = <<>>

\* C22: a delete_value changes no query_history result but for the
\* system_to reported for the version it closes: the same valid times with
\* the same value and system_from; the deleted measurement still appears in
\* query_history for every tx_to >= its system_from, later than the delete
\* time included, while query_value from that perspective finds nothing.
HistoryIgnoresClosing ==
    AfterSetCurrentTime =>
    \A m \in DeletionsAt :
        LET c == records[ClosedBy(records, m[2])]
        IN  /\ SameHistoryButSystemTo(records, m[2], c, m[1])
            /\ StillInHistory(m[2], c)
            /\ GoneFromPointQuery(m[2], c, m[1])

=============================================================================
